---- MODULE Spec2Model ----
(***************************************************************************)
(* The conflict-detection and state-merge engine of the LifeOS assistant   *)
(* (App component): handleSendMessage, addDataToState, the three conflict  *)
(* resolutions, the CRUD handlers and the chat-session handlers, as a      *)
(* state machine over the React state of the component.                    *)
(*                                                                         *)
(* Conventions.  JavaScript strings whose characters matter (phone, title, *)
(* item label, time) are sequences of one-character strings; the empty     *)
(* sequence is both '' and an absent optional field, which the code treats *)
(* alike (phone ? ... : '', a.time || '').  Other strings are TLA+         *)
(* strings, "" standing for null / absent.  null objects are NULL.         *)
(* Calendar dates are strings in the YYYY-MM-DD format the gateway schema  *)
(* and the forms prescribe.  generateId is a fresh counter.                *)
(***************************************************************************)
EXTENDS Integers, Sequences, FiniteSets, TLC

VARIABLES
    hasInteracted, history, contacts, schedule, expenses, diary,
    chatSessions, activeChatSessionId, isLoading, error,
    pendingClarificationInput, conflictData,
    call,        \* the handleSendMessage invocation in flight (its closure and position)
    nextId,      \* generateId's next value
    lastOp,      \* history variable: the handler step taken last
    pre,         \* history variable: the state just before lastOp's step, when that
                 \* step was a gateway result, a gateway error, a conflict resolution
                 \* or a change of chat session
    preRound,    \* history variable: the state just before the extraction result
                 \* processed last was processed
    talk,        \* history variable: the sends and clarification questions since the
                 \* last step that was neither (see Sent, Asked, Broken)
    sendsLeft,   \* handleSendMessage invocations the behaviour may still make
    actsLeft     \* CRUD and session handler invocations the behaviour may still make

vars == <<hasInteracted, history, contacts, schedule, expenses, diary,
          chatSessions, activeChatSessionId, isLoading, error,
          pendingClarificationInput, conflictData, call, nextId,
          lastOp, pre, preRound, talk, sendsLeft, actsLeft>>

\* ---------------------------------------------------------------- bounds
MaxSends == 1
MaxActs == 1
\* the conversation specification: rounds of one conversation, session changes
MaxRounds == 2
MaxSwitches == 1

\* ---------------------------------------------------------------- values
NULL == [null |-> TRUE]
\* activeChatSessionId's 'new'; generated ids are positive
NewSession == 0
DefaultGroup == "gita"

Last(s) == s[Len(s)]
Front(s) == SubSeq(s, 1, Len(s) - 1)

Range(s) == {s[i] : i \in DOMAIN s}
Ids(s) == {s[i].id : i \in DOMAIN s}
\* Array.prototype.find: the first match, or NULL
find(hits) == IF hits = <<>> THEN NULL ELSE Head(hits)

\* ---------------------------------------------------------------- strings
IsDigit(c) == c \in {"0", "1", "2", "3", "4", "5", "6", "7", "8", "9"}
IsSpace(c) == c \in {" "}

normalizePhoneRaw(phone) == phone
\* phone ? phone.replace(/\D/g, '') : ''
normalizePhone(phone) == SelectSeq(phone, IsDigit)

RECURSIVE TrimStart(_)
TrimStart(s) == IF s # <<>> /\ IsSpace(Head(s)) THEN TrimStart(Tail(s)) ELSE s
RECURSIVE TrimEnd(_)
TrimEnd(s) == IF s # <<>> /\ IsSpace(Last(s)) THEN TrimEnd(Front(s)) ELSE s
\* String.prototype.trim
trim(s) == TrimEnd(TrimStart(s))

LowerChar(c) ==
    CASE c = "A" -> "a" [] c = "B" -> "b" [] c = "C" -> "c" [] OTHER -> c
\* String.prototype.toLowerCase
toLowerCase(s) == [i \in DOMAIN s |-> LowerChar(s[i])]

\* Code-unit order of the characters that occur in times (HH:MM)
CharRank(c) ==
    CASE c = "0" -> 48 [] c = "1" -> 49 [] c = "2" -> 50 [] c = "3" -> 51
      [] c = "4" -> 52 [] c = "5" -> 53 [] c = "6" -> 54 [] c = "7" -> 55
      [] c = "8" -> 56 [] c = "9" -> 57 [] c = ":" -> 58 [] OTHER -> 0
RECURSIVE localeCompare(_, _)
\* String.prototype.localeCompare on time strings: negative, 0 or positive
localeCompare(a, b) ==
    IF a = <<>> /\ b = <<>> THEN 0
    ELSE IF a = <<>> THEN -1
    ELSE IF b = <<>> THEN 1
    ELSE IF CharRank(Head(a)) < CharRank(Head(b)) THEN -1
    ELSE IF CharRank(Head(a)) > CharRank(Head(b)) THEN 1
    ELSE localeCompare(Tail(a), Tail(b))

\* new Date(date).getTime(), in days since the epoch
getTime(date) ==
    CASE date = "2024-04-30" -> 19843
      [] date = "2024-05-01" -> 19844
      [] date = "2024-05-02" -> 19845

\* ---------------------------------------------------------------- sorting
\* The comparator of the schedule sort:
\* new Date(a.date).getTime() - new Date(b.date).getTime() || (a.time || '').localeCompare(b.time || '')
scheduleCompare(a, b) ==
    LET byDate == getTime(a.date) - getTime(b.date)
    IN  IF byDate # 0 THEN byDate ELSE localeCompare(a.time, b.time)

\* The comparator of handleAddExpense's sort:
\* new Date(b.date).getTime() - new Date(a.date).getTime()
expenseCompare(a, b) == getTime(b.date) - getTime(a.date)

\* Array.prototype.sort is stable: x goes after every element that does not
\* compare greater than it.
RECURSIVE insertSchedule(_, _)
insertSchedule(x, s) ==
    IF s = <<>> THEN <<x>>
    ELSE IF scheduleCompare(Head(s), x) <= 0 THEN <<Head(s)>> \o insertSchedule(x, Tail(s))
    ELSE <<x>> \o s

RECURSIVE insertExpense(_, _)
insertExpense(x, s) ==
    IF s = <<>> THEN <<x>>
    ELSE IF expenseCompare(Head(s), x) <= 0 THEN <<Head(s)>> \o insertExpense(x, Tail(s))
    ELSE <<x>> \o s

RECURSIVE sortExpenses(_)
\* [...].sort((a, b) => ...) of handleAddExpense
sortExpenses(s) ==
    IF s = <<>> THEN <<>> ELSE insertExpense(Last(s), sortExpenses(Front(s)))

RECURSIVE sortScheduleStable(_)
sortScheduleStable(s) ==
    IF s = <<>> THEN <<>> ELSE insertSchedule(Last(s), sortScheduleStable(Front(s)))

sortScheduleUnsorted(s) == s
\* [...].sort((a, b) => ...) of addDataToState and handleAddSchedule
sortSchedule(s) == sortScheduleStable(s)

\* ---------------------------------------------------------------- addIdsToData
\* c.group || DefaultGroup
groupOrDefault(g) == IF g = "" THEN DefaultGroup ELSE g

addIdsToDataOneId(data, base) ==
    [contacts |-> [i \in DOMAIN data.contacts |->
                      [id |-> base + 1, name |-> data.contacts[i].name,
                       phone |-> data.contacts[i].phone,
                       group |-> groupOrDefault(data.contacts[i].group)]],
     schedule |-> [i \in DOMAIN data.schedule |->
                      [id |-> base + 1, title |-> data.schedule[i].title,
                       date |-> data.schedule[i].date, time |-> data.schedule[i].time]],
     expenses |-> [i \in DOMAIN data.expenses |->
                      [id |-> base + 1, date |-> data.expenses[i].date,
                       item |-> data.expenses[i].item, amount |-> data.expenses[i].amount,
                       type |-> data.expenses[i].type, imageUrl |-> ""]],
     diary |-> [i \in DOMAIN data.diary |->
                      [id |-> base + 1, date |-> data.diary[i].date,
                       entry |-> data.diary[i].entry,
                       group |-> groupOrDefault(data.diary[i].group)]]]
\* data.contacts.map(c => ({ ...c, id: generateId(), group: c.group || DefaultGroup })) etc.;
\* generateId yields base + 1, base + 2, ... in call order
addIdsToData(data, base) ==
    LET nc == Len(data.contacts)
        ns == Len(data.schedule)
        ne == Len(data.expenses)
    IN  [contacts |-> [i \in DOMAIN data.contacts |->
                          [id |-> base + i, name |-> data.contacts[i].name,
                           phone |-> data.contacts[i].phone,
                           group |-> groupOrDefault(data.contacts[i].group)]],
         schedule |-> [i \in DOMAIN data.schedule |->
                          [id |-> base + nc + i, title |-> data.schedule[i].title,
                           date |-> data.schedule[i].date, time |-> data.schedule[i].time]],
         expenses |-> [i \in DOMAIN data.expenses |->
                          [id |-> base + nc + ns + i, date |-> data.expenses[i].date,
                           item |-> data.expenses[i].item, amount |-> data.expenses[i].amount,
                           type |-> data.expenses[i].type, imageUrl |-> ""]],
         diary |-> [i \in DOMAIN data.diary |->
                          [id |-> base + nc + ns + ne + i, date |-> data.diary[i].date,
                           entry |-> data.diary[i].entry,
                           group |-> groupOrDefault(data.diary[i].group)]]]

RecordCount(data) ==
    Len(data.contacts) + Len(data.schedule) + Len(data.expenses) + Len(data.diary)

\* ---------------------------------------------------------------- Duplicate Detector
\* contacts.find(c => normalizePhone(c.phone) === newPhoneNormalized), guarded by
\* if (newPhoneNormalized)
existingContact(newContact, cs) ==
    LET newPhoneNormalized == normalizePhone(newContact.phone)
    IN  IF newPhoneNormalized # <<>>
        THEN find(SelectSeq(cs, LAMBDA c : normalizePhone(c.phone) = newPhoneNormalized))
        ELSE NULL

scheduleMatchTitleOnly(s, newSchedule) ==
    toLowerCase(trim(s.title)) = toLowerCase(trim(newSchedule.title))
\* s.title.trim().toLowerCase() === newSchedule.title.trim().toLowerCase() && s.date === newSchedule.date
scheduleMatch(s, newSchedule) ==
    /\ toLowerCase(trim(s.title)) = toLowerCase(trim(newSchedule.title))
    /\ s.date = newSchedule.date

existingSchedule(newSchedule, ss) == find(SelectSeq(ss, LAMBDA s : scheduleMatch(s, newSchedule)))

expenseMatchAnyType(e, newExpense) ==
    /\ toLowerCase(trim(e.item)) = toLowerCase(trim(newExpense.item))
    /\ e.date = newExpense.date
    /\ e.amount = newExpense.amount
\* e.item.trim().toLowerCase() === newExpense.item.trim().toLowerCase() && e.date === newExpense.date
\* && e.amount === newExpense.amount && e.type === newExpense.type
expenseMatch(e, newExpense) ==
    /\ toLowerCase(trim(e.item)) = toLowerCase(trim(newExpense.item))
    /\ e.date = newExpense.date
    /\ e.amount = newExpense.amount
    /\ e.type = newExpense.type

existingExpense(newExpense, es) == find(SelectSeq(es, LAMBDA e : expenseMatch(e, newExpense)))

\* The three forEach loops of addDataToState: the new records that collide and,
\* in the same order, the id of the first existing record each collides with.
\* cs, ss, es are the contacts, schedule and expenses the function reads.
DuplicateCheck(categorizedResult, cs, ss, es) ==
    LET hitC == SelectSeq(categorizedResult.contacts, LAMBDA n : existingContact(n, cs) # NULL)
        hitS == SelectSeq(categorizedResult.schedule, LAMBDA n : existingSchedule(n, ss) # NULL)
        hitE == SelectSeq(categorizedResult.expenses, LAMBDA n : existingExpense(n, es) # NULL)
    IN  [conflicts |-> [contacts |-> hitC, schedule |-> hitS, expenses |-> hitE],
         conflictingOriginalIds |->
            [contacts |-> [i \in DOMAIN hitC |-> existingContact(hitC[i], cs).id],
             schedule |-> [i \in DOMAIN hitS |-> existingSchedule(hitS[i], ss).id],
             expenses |-> [i \in DOMAIN hitE |-> existingExpense(hitE[i], es).id]]]

\* conflicts.contacts.length > 0 || conflicts.schedule.length > 0 || conflicts.expenses.length > 0
hasConflicts(conflicts) ==
    \/ Len(conflicts.contacts) > 0
    \/ Len(conflicts.schedule) > 0
    \/ Len(conflicts.expenses) > 0

\* ---------------------------------------------------------------- the store
\* The four collections and the history log
Store == [contacts |-> contacts, schedule |-> schedule, expenses |-> expenses,
          diary |-> diary, history |-> history]
\* What the history variables record of a state: the store, the two pending
\* slots, the chat sessions, the invocation in flight, and the gateway result
\* (if any) being processed
Snapshot(arg) ==
    [store |-> Store, conflictData |-> conflictData,
     pendingClarificationInput |-> pendingClarificationInput,
     chatSessions |-> chatSessions, activeChatSessionId |-> activeChatSessionId,
     call |-> call, result |-> arg]

prependAtEnd(item, prev) == prev \o <<item>>
\* [newHistoryItem, ...prev]
prepend(item, prev) == <<item>> \o prev

appendNothing(prev, new) == prev
\* [...prev, ...new]
append(prev, new) == prev \o new

replaceKeepingAll(prev, ids, new) == prev \o new
replaceByPosition(prev, ids, new) == SubSeq(prev, Len(ids) + 1, Len(prev)) \o new
\* [...prev.filter(r => !ids.includes(r.id)), ...new]
replace(prev, ids, new) ==
    SelectSeq(prev, LAMBDA r : r.id \notin Range(ids)) \o new

replaceDiaryDropping(prev, new) == new
\* [...prev.filter(d => !new.some(nd => nd.id === d.id)), ...new]
replaceDiary(prev, new) ==
    SelectSeq(prev, LAMBDA d : d.id \notin Ids(new)) \o new

\* ---------------------------------------------------------------- chat sessions
UserMessage(text, imageUrl) ==
    [role |-> "user", text |-> text, imageUrl |-> imageUrl, clarificationOptions |-> <<>>]
ModelMessage(text, options) ==
    [role |-> "model", text |-> text, imageUrl |-> "", clarificationOptions |-> options]

\* FileReader.readAsDataURL(image): the image reference of a file
dataUrl(image) ==
    CASE image = "" -> ""
      [] image = "receipt.png" -> "data:receipt.png"
      [] image = "memo.png" -> "data:memo.png"

appendMessageToAll(sessions, sid, msg) ==
    [i \in DOMAIN sessions |-> [sessions[i] EXCEPT !.messages = Append(@, msg)]]
\* prev.map(s => s.id === sid ? { ...s, messages: [...s.messages, msg] } : s)
appendMessage(sessions, sid, msg) ==
    [i \in DOMAIN sessions |->
        IF sessions[i].id = sid
        THEN [sessions[i] EXCEPT !.messages = Append(@, msg)]
        ELSE sessions[i]]

\* What a handler's closure holds: the state of the render it was created in
Closure ==
    [contacts |-> contacts, schedule |-> schedule, expenses |-> expenses,
     pendingClarificationInput |-> pendingClarificationInput,
     chatSessions |-> chatSessions, activeChatSessionId |-> activeChatSessionId]

\* {conflictData && (<ConflictModal ... />)}, in the main layout only: the
\* landing layout, returned while hasInteracted is false, has no modal
ModalOpen == hasInteracted /\ conflictData # NULL
\* The modal covers the page: while it is open the user reaches nothing but its
\* three buttons ("the UI blocks new submissions until resolved")
PageReachable == ~ModalOpen

\* A step of the merge engine, and any other step
Note(op, arg) == lastOp' = op /\ pre' = Snapshot(arg)
Other(op) == lastOp' = op /\ pre' = NULL

\* The exchange in progress: the user sent an input (while a question was
\* awaiting its reply, or not), the assistant asked a question back; any other
\* outcome and any change of session ends it
Sent(text, image) ==
    talk' = Append(talk, [kind |-> "send",
                          input |-> [text |-> text, imageName |-> image,
                                     imageUrl |-> dataUrl(image)],
                          awaiting |-> pendingClarificationInput # NULL])
Asked == talk' = Append(talk, [kind |-> "question"])
Broken == talk' = <<>>

\* ---------------------------------------------------------------- handleSendMessage
\* Lines 234-266: build the user message and the input log, then add the message
\* to the active session (or open a new session).  session.messages of a session
\* that is not in the list throws outside the try block: the handler ends there.
sendToSession(c, text, image) ==
    LET imageUrl == dataUrl(image)
        userMessage == UserMessage(text, imageUrl)
        userInputLog == [text |-> text, imageName |-> image, imageUrl |-> imageUrl]
        waiting(sid) == [pc |-> "processChat", text |-> text, image |-> image,
                         imageUrl |-> imageUrl, userInputLog |-> userInputLog,
                         currentSessionId |-> sid, closure |-> c]
    IN  IF c.activeChatSessionId = NewSession
        THEN /\ chatSessions' =
                   <<[id |-> nextId, title |-> IF text # "" THEN text ELSE image,
                      messages |-> <<userMessage>>]>> \o chatSessions
             /\ activeChatSessionId' = nextId
             /\ nextId' = nextId + 1
             /\ call' = waiting(nextId)
        ELSE LET session == find(SelectSeq(c.chatSessions, LAMBDA x : x.id = c.activeChatSessionId))
             IN  IF session = NULL
                 THEN /\ call' = NULL
                      /\ UNCHANGED <<chatSessions, activeChatSessionId, nextId>>
                 ELSE /\ chatSessions' =
                            [i \in DOMAIN chatSessions |->
                                IF chatSessions[i].id = c.activeChatSessionId
                                THEN [session EXCEPT !.messages = Append(@, userMessage)]
                                ELSE chatSessions[i]]
                      /\ call' = waiting(c.activeChatSessionId)
                      /\ UNCHANGED <<activeChatSessionId, nextId>>

HandleSendMessageAnytime(text, image) ==
    /\ PageReachable
    /\ text # "" \/ image # ""
    /\ sendsLeft > 0
    /\ sendsLeft' = sendsLeft - 1
    /\ hasInteracted' = TRUE
    /\ isLoading' = TRUE
    /\ error' = ""
    /\ IF image # ""
       THEN /\ call' = [pc |-> "readImage", text |-> text, image |-> image, closure |-> Closure]
            /\ UNCHANGED <<chatSessions, activeChatSessionId, nextId>>
       ELSE sendToSession(Closure, text, image)
    /\ Other("send")
    /\ Sent(text, image)
    /\ UNCHANGED <<history, contacts, schedule, expenses, diary,
                   pendingClarificationInput, conflictData, preRound, actsLeft>>
\* Lines 218-232: the handler starts (the input surface is enabled only while
\* isLoading is false and submits only a non-empty input); with an image it
\* suspends on the FileReader first.
HandleSendMessage(text, image) ==
    /\ PageReachable
    /\ ~isLoading
    /\ text # "" \/ image # ""
    /\ sendsLeft > 0
    /\ sendsLeft' = sendsLeft - 1
    /\ hasInteracted' = TRUE
    /\ isLoading' = TRUE
    /\ error' = ""
    /\ IF image # ""
       THEN /\ call' = [pc |-> "readImage", text |-> text, image |-> image, closure |-> Closure]
            /\ UNCHANGED <<chatSessions, activeChatSessionId, nextId>>
       ELSE sendToSession(Closure, text, image)
    /\ Other("send")
    /\ Sent(text, image)
    /\ UNCHANGED <<history, contacts, schedule, expenses, diary,
                   pendingClarificationInput, conflictData, preRound, actsLeft>>

\* reader.onloadend: the handler resumes after the image was read
ImageLoaded ==
    /\ call # NULL
    /\ call.pc = "readImage"
    /\ sendToSession(call.closure, call.text, call.image)
    /\ Other("image")
    /\ UNCHANGED <<hasInteracted, isLoading, error, history, contacts, schedule, expenses,
                   diary, pendingClarificationInput, conflictData, preRound, talk,
                   sendsLeft, actsLeft>>

\* ---------------------------------------------------------------- addDataToState
\* expense.imageUrl = finalImageUrl for every expense, if finalImageUrl is set
withImage(categorizedResult, finalImageUrl) ==
    IF finalImageUrl # ""
    THEN [categorizedResult EXCEPT !.expenses =
             [i \in DOMAIN @ |-> [@[i] EXCEPT !.imageUrl = finalImageUrl]]]
    ELSE categorizedResult

\* Lines 106-181.  c is the closure of the handleSendMessage invocation that
\* calls it: the duplication check reads c's contacts, schedule and expenses;
\* the commit is made of functional updates of the current state.
addDataToState(categorizedResult, input, c, historyId) ==
    LET check == DuplicateCheck(categorizedResult, c.contacts, c.schedule, c.expenses)
        newHistoryItem == [id |-> historyId, input |-> input, output |-> categorizedResult]
    IN  IF hasConflicts(check.conflicts)
        THEN /\ conflictData' = [conflicts |-> check.conflicts,
                                 categorizedResult |-> categorizedResult,
                                 conflictingOriginalIds |-> check.conflictingOriginalIds,
                                 newHistoryItem |-> newHistoryItem]
             /\ UNCHANGED <<history, contacts, schedule, expenses, diary>>
        ELSE /\ history' = prepend(newHistoryItem, history)
             /\ contacts' = append(contacts, categorizedResult.contacts)
             /\ schedule' = sortSchedule(append(schedule, categorizedResult.schedule))
             /\ expenses' = append(expenses, categorizedResult.expenses)
             /\ diary' = append(diary, categorizedResult.diary)
             /\ UNCHANGED conflictData

finalImageUrlOfReply(pending, imageUrl) == imageUrl
\* const finalImageUrl = pendingClarificationInput?.imageUrl || imageUrl
finalImageUrl(pending, imageUrl) ==
    IF pending # NULL /\ pending.imageUrl # "" THEN pending.imageUrl ELSE imageUrl

inputOfReply(pending, userInputLog) == userInputLog
\* const inputForHistory = pendingClarificationInput || userInputLog
inputForHistory(pending, userInputLog) ==
    IF pending # NULL THEN pending ELSE userInputLog

storePendingLast(pending, stored, userInputLog) == userInputLog
\* if (!pendingClarificationInput) setPendingClarificationInput(userInputLog):
\* pending is the value the handler's closure holds, stored the current one
storePending(pending, stored, userInputLog) ==
    IF pending = NULL THEN userInputLog ELSE stored

clarificationNeededIgnored(result) == FALSE
\* if (result.clarificationNeeded)
clarificationNeeded(result) == result.clarificationNeeded

hasExtractedData(extractedData) ==
    \/ Len(extractedData.contacts) > 0
    \/ Len(extractedData.schedule) > 0
    \/ Len(extractedData.expenses) > 0
    \/ Len(extractedData.diary) > 0

\* Lines 271-336 and 353-355: processChat returned result
GatewayResult(result) ==
    /\ call # NULL
    /\ call.pc = "processChat"
    /\ LET c == call.closure
           sid == call.currentSessionId
           pending == c.pendingClarificationInput
       IN  IF clarificationNeeded(result)
           THEN /\ pendingClarificationInput' =
                      storePending(pending, pendingClarificationInput, call.userInputLog)
                /\ chatSessions' = appendMessage(chatSessions, sid,
                                       ModelMessage(result.answer, result.clarificationOptions))
                /\ UNCHANGED <<history, contacts, schedule, expenses, diary,
                               conflictData, nextId>>
           ELSE /\ chatSessions' =
                      IF result.answer # ""
                      THEN appendMessage(chatSessions, sid, ModelMessage(result.answer, <<>>))
                      ELSE chatSessions
                /\ IF hasExtractedData(result.dataExtraction)
                   THEN LET categorizedResult ==
                                withImage(addIdsToData(result.dataExtraction, nextId - 1),
                                          finalImageUrl(pending, call.imageUrl))
                            n == RecordCount(result.dataExtraction)
                        IN  /\ addDataToState(categorizedResult,
                                              inputForHistory(pending, call.userInputLog),
                                              c, nextId + n)
                            /\ pendingClarificationInput' = NULL
                            /\ nextId' = nextId + n + 1
                   ELSE UNCHANGED <<history, contacts, schedule, expenses, diary,
                                    conflictData, pendingClarificationInput, nextId>>
    /\ isLoading' = FALSE
    /\ call' = NULL
    /\ Note("result", result)
    /\ IF clarificationNeeded(result) THEN Asked ELSE Broken
    /\ preRound' = Snapshot(result)
    /\ UNCHANGED <<hasInteracted, activeChatSessionId, error, sendsLeft, actsLeft>>

\* The text of the error message item: the Korean for "An error occurred: "
\* followed by the message of the Error
errorText(errorMessage) ==
    CASE errorMessage = "gateway failed" -> "An error occurred: gateway failed"

GatewayErrorDroppingHistory(errorMessage) ==
    /\ call # NULL
    /\ call.pc = "processChat"
    /\ error' = errorMessage
    /\ chatSessions' = appendMessage(chatSessions, call.currentSessionId,
                                     ModelMessage(errorText(errorMessage), <<>>))
    /\ pendingClarificationInput' = NULL
    /\ history' = <<>>
    /\ isLoading' = FALSE
    /\ call' = NULL
    /\ Note("error", NULL)
    /\ Broken
    /\ UNCHANGED <<hasInteracted, contacts, schedule, expenses, diary,
                   activeChatSessionId, conflictData, nextId, preRound, sendsLeft, actsLeft>>
\* Lines 338-355: processChat threw
GatewayError(errorMessage) ==
    /\ call # NULL
    /\ call.pc = "processChat"
    /\ error' = errorMessage
    /\ chatSessions' = appendMessage(chatSessions, call.currentSessionId,
                                     ModelMessage(errorText(errorMessage), <<>>))
    /\ pendingClarificationInput' = NULL
    /\ isLoading' = FALSE
    /\ call' = NULL
    /\ Note("error", NULL)
    /\ Broken
    /\ UNCHANGED <<hasInteracted, history, contacts, schedule, expenses, diary,
                   activeChatSessionId, conflictData, nextId, preRound, sendsLeft, actsLeft>>

\* ---------------------------------------------------------------- chat handlers
HandleNewChatKeepingPending ==
    /\ PageReachable
    /\ hasInteracted' = FALSE
    /\ activeChatSessionId' = NewSession
    /\ actsLeft > 0
    /\ actsLeft' = actsLeft - 1
    /\ Note("newChat", NULL)
    /\ Broken
    /\ UNCHANGED <<history, contacts, schedule, expenses, diary, chatSessions, isLoading,
                   error, conflictData, call, nextId, preRound, sendsLeft,
                   pendingClarificationInput>>
HandleNewChat ==
    /\ PageReachable
    /\ hasInteracted' = FALSE
    /\ activeChatSessionId' = NewSession
    /\ pendingClarificationInput' = NULL
    /\ actsLeft > 0
    /\ actsLeft' = actsLeft - 1
    /\ Note("newChat", NULL)
    /\ Broken
    /\ UNCHANGED <<history, contacts, schedule, expenses, diary, chatSessions, isLoading,
                   error, conflictData, call, nextId, preRound, sendsLeft>>

\* handleSidebarSelectChat: handleSelectChat, then setHasInteracted(true)
HandleSelectChat(sessionId) ==
    /\ PageReachable
    /\ hasInteracted' = TRUE
    /\ activeChatSessionId' = sessionId
    /\ pendingClarificationInput' = NULL
    /\ actsLeft > 0
    /\ actsLeft' = actsLeft - 1
    /\ Note("selectChat", NULL)
    /\ Broken
    /\ UNCHANGED <<history, contacts, schedule, expenses, diary, chatSessions,
                   isLoading, error, conflictData, call, nextId, preRound, sendsLeft>>

\* handleSidebarViewChange: the main layout takes the place of the landing layout
\* (the view it shows is not part of the model)
HandleSidebarViewChange ==
    /\ PageReachable
    /\ hasInteracted' = TRUE
    /\ actsLeft > 0
    /\ actsLeft' = actsLeft - 1
    /\ Other("viewChange")
    /\ UNCHANGED <<history, contacts, schedule, expenses, diary, chatSessions,
                   activeChatSessionId, isLoading, error, pendingClarificationInput,
                   conflictData, call, nextId, preRound, talk, sendsLeft>>

\* ---------------------------------------------------------------- conflict resolution
Resolved(op) ==
    /\ conflictData' = NULL
    /\ Note(op, NULL)
    /\ UNCHANGED <<hasInteracted, chatSessions, activeChatSessionId, isLoading, error,
                   pendingClarificationInput, call, nextId, preRound, talk,
                   sendsLeft, actsLeft>>

\* Lines 377-391: the store after Replace of the session cd
confirmStore(store, cd) ==
    [history |-> prepend(cd.newHistoryItem, store.history),
     contacts |-> replace(store.contacts, cd.conflictingOriginalIds.contacts,
                          cd.categorizedResult.contacts),
     schedule |-> replace(store.schedule, cd.conflictingOriginalIds.schedule,
                          cd.categorizedResult.schedule),
     expenses |-> replace(store.expenses, cd.conflictingOriginalIds.expenses,
                          cd.categorizedResult.expenses),
     diary |-> replaceDiary(store.diary, cd.categorizedResult.diary)]

\* Replace
HandleConflictConfirm ==
    /\ ModalOpen
    /\ conflictData # NULL
    /\ LET after == confirmStore(Store, conflictData)
       IN  /\ history' = after.history
           /\ contacts' = after.contacts
           /\ schedule' = after.schedule
           /\ expenses' = after.expenses
           /\ diary' = after.diary
    /\ Resolved("confirm")

HandleConflictCancelCommitting ==
    /\ ModalOpen
    /\ conflictData # NULL
    /\ history' = prepend(conflictData.newHistoryItem, history)
    /\ contacts' = append(contacts, conflictData.categorizedResult.contacts)
    /\ UNCHANGED <<schedule, expenses, diary>>
    /\ Resolved("cancel")
\* Cancel
HandleConflictCancel ==
    /\ ModalOpen
    /\ conflictData # NULL
    /\ UNCHANGED <<history, contacts, schedule, expenses, diary>>
    /\ Resolved("cancel")

\* Ignore-and-append
HandleConflictIgnoreAndAdd ==
    /\ ModalOpen
    /\ conflictData # NULL
    /\ LET categorizedResult == conflictData.categorizedResult
       IN  /\ history' = prepend(conflictData.newHistoryItem, history)
           /\ contacts' = append(contacts, categorizedResult.contacts)
           /\ schedule' = append(schedule, categorizedResult.schedule)
           /\ expenses' = append(expenses, categorizedResult.expenses)
           /\ diary' = append(diary, categorizedResult.diary)
    /\ Resolved("ignore")

\* ---------------------------------------------------------------- CRUD handlers
\* The lists and their forms are part of the main layout (renderContent)
Edited(op) ==
    /\ hasInteracted
    /\ PageReachable
    /\ actsLeft > 0
    /\ actsLeft' = actsLeft - 1
    /\ Other(op)
    /\ UNCHANGED <<hasInteracted, history, chatSessions, activeChatSessionId, isLoading,
                   error, pendingClarificationInput, conflictData, call, preRound, talk,
                   sendsLeft>>

\* prev.map(r => r.id === updated.id ? updated : r)
updateById(prev, updated) ==
    [i \in DOMAIN prev |-> IF prev[i].id = updated.id THEN updated ELSE prev[i]]
\* prev.filter(r => r.id !== id)
deleteById(prev, id) == SelectSeq(prev, LAMBDA r : r.id # id)

HandleAddContact(contact) ==
    /\ contacts' = <<[id |-> nextId, name |-> contact.name, phone |-> contact.phone,
                      group |-> groupOrDefault(contact.group)]>> \o contacts
    /\ nextId' = nextId + 1
    /\ Edited("addContact")
    /\ UNCHANGED <<schedule, expenses, diary>>

HandleUpdateContact(updatedContact) ==
    /\ contacts' = updateById(contacts,
                      [updatedContact EXCEPT !.group = groupOrDefault(@)])
    /\ Edited("updateContact")
    /\ UNCHANGED <<schedule, expenses, diary, nextId>>

HandleDeleteContact(contactId) ==
    /\ contacts' = deleteById(contacts, contactId)
    /\ Edited("deleteContact")
    /\ UNCHANGED <<schedule, expenses, diary, nextId>>

HandleAddSchedule(item) ==
    /\ schedule' = sortSchedule(Append(schedule,
                      [id |-> nextId, title |-> item.title, date |-> item.date,
                       time |-> item.time]))
    /\ nextId' = nextId + 1
    /\ Edited("addSchedule")
    /\ UNCHANGED <<contacts, expenses, diary>>

HandleUpdateSchedule(updatedItem) ==
    /\ schedule' = updateById(schedule, updatedItem)
    /\ Edited("updateSchedule")
    /\ UNCHANGED <<contacts, expenses, diary, nextId>>

HandleDeleteSchedule(itemId) ==
    /\ schedule' = deleteById(schedule, itemId)
    /\ Edited("deleteSchedule")
    /\ UNCHANGED <<contacts, expenses, diary, nextId>>

HandleAddExpense(expense) ==
    /\ expenses' = sortExpenses(Append(expenses,
                      [id |-> nextId, date |-> expense.date, item |-> expense.item,
                       amount |-> expense.amount, type |-> expense.type, imageUrl |-> ""]))
    /\ nextId' = nextId + 1
    /\ Edited("addExpense")
    /\ UNCHANGED <<contacts, schedule, diary>>

HandleUpdateExpense(updatedExpense) ==
    /\ expenses' = updateById(expenses, updatedExpense)
    /\ Edited("updateExpense")
    /\ UNCHANGED <<contacts, schedule, diary, nextId>>

HandleDeleteExpense(expenseId) ==
    /\ expenses' = deleteById(expenses, expenseId)
    /\ Edited("deleteExpense")
    /\ UNCHANGED <<contacts, schedule, diary, nextId>>

HandleAddDiary(entry) ==
    /\ diary' = <<[id |-> nextId, date |-> entry.date, entry |-> entry.entry,
                   group |-> groupOrDefault(entry.group)]>> \o diary
    /\ nextId' = nextId + 1
    /\ Edited("addDiary")
    /\ UNCHANGED <<contacts, schedule, expenses>>

HandleUpdateDiary(updatedEntry) ==
    /\ diary' = updateById(diary, [updatedEntry EXCEPT !.group = groupOrDefault(@)])
    /\ Edited("updateDiary")
    /\ UNCHANGED <<contacts, schedule, expenses, nextId>>

HandleDeleteDiary(diaryId) ==
    /\ diary' = deleteById(diary, diaryId)
    /\ Edited("deleteDiary")
    /\ UNCHANGED <<contacts, schedule, expenses, nextId>>

\* ---------------------------------------------------------------- import
\* The values of a backup file's keys: a JSON array, any other JSON value, or
\* no value (the key is missing or null)
List(items) == [isArray |-> TRUE, nullish |-> FALSE, value |-> items]
Value(v) == [isArray |-> FALSE, nullish |-> FALSE, value |-> v]
Missing == [isArray |-> FALSE, nullish |-> TRUE]
\* Array.isArray(v)
isArray(v) == v.isArray
\* v ?? d
orElse(v, d) == IF v.nullish THEN d ELSE v.value

validIfParsed(file) == file.isText /\ file.isJson /\ ~file.state.nullish
\* typeof text === 'string', JSON.parse(text) and the "Basic validation" of the
\* parsed state: none of them throws
valid(file) ==
    /\ file.isText
    /\ file.isJson
    /\ ~file.state.nullish
    /\ isArray(file.state.value.contacts)
    /\ isArray(file.state.value.schedule)
    /\ isArray(file.state.value.expenses)
    /\ isArray(file.state.value.diary)
    /\ isArray(file.state.value.history)
    /\ isArray(file.state.value.chatSessions)

\* Lines 501-553: the user chose file in the dialog (the file input is part of
\* the main layout) and reader.onload ran; confirmed is the answer to
\* window.confirm, asked only for a file that passed the validation
HandleImportData(file, confirmed) ==
    /\ hasInteracted
    /\ PageReachable
    /\ actsLeft > 0
    /\ actsLeft' = actsLeft - 1
    /\ IF valid(file) /\ confirmed
       THEN LET importedState == file.state.value
            IN  /\ hasInteracted' = orElse(importedState.hasInteracted, TRUE)
                /\ history' = orElse(importedState.history, <<>>)
                /\ contacts' = orElse(importedState.contacts, <<>>)
                /\ schedule' = orElse(importedState.schedule, <<>>)
                /\ expenses' = orElse(importedState.expenses, <<>>)
                /\ diary' = orElse(importedState.diary, <<>>)
                /\ chatSessions' = orElse(importedState.chatSessions, <<>>)
                /\ activeChatSessionId' = orElse(importedState.activeChatSessionId, NewSession)
       ELSE UNCHANGED <<hasInteracted, history, contacts, schedule, expenses, diary,
                        chatSessions, activeChatSessionId>>
    /\ Note("import", [file |-> file, confirmed |-> confirmed])
    /\ Broken
    /\ UNCHANGED <<isLoading, error, pendingClarificationInput, conflictData, call,
                   nextId, preRound, sendsLeft>>

\* ---------------------------------------------------------------- inputs
\* Phone numbers: the same digits written two ways, other digits, no digit, none
PhoneDashed == <<"0", "1", "-", "2">>
PhonePlain == <<"0", "1", "2">>
PhoneOther == <<"9">>
PhoneNoDigit == <<"-">>
NoPhone == <<>>

\* Titles and item labels: the first two differ in case and outer blanks only,
\* the third lacks the inner blank, the fourth is another word
TitleSync == <<"A", "b", " ", "c">>
TitleSyncLoose == <<" ", "a", "B", " ", "C", " ">>
TitleJoined == <<"a", "b", "c">>
TitleOther == <<"b">>

NoTime == <<>>
Time0900 == <<"0", "9", ":", "0", "0">>
Time1030 == <<"1", "0", ":", "3", "0">>

Contact(name, phone, group) == [name |-> name, phone |-> phone, group |-> group]
ScheduleItem(title, date, time) == [title |-> title, date |-> date, time |-> time]
Expense(date, item, amount, type) ==
    [date |-> date, item |-> item, amount |-> amount, type |-> type]
DiaryEntry(date, entry, group) == [date |-> date, entry |-> entry, group |-> group]

Extraction(cs, ss, es, ds) ==
    [contacts |-> cs, schedule |-> ss, expenses |-> es, diary |-> ds]
\* processChat's result without a clarification request
Answer(text, data) ==
    [answer |-> text, clarificationNeeded |-> FALSE, clarificationOptions |-> <<>>,
     dataExtraction |-> data]
\* processChat's result with clarificationNeeded set
Question(text, options, data) ==
    [answer |-> text, clarificationNeeded |-> TRUE, clarificationOptions |-> options,
     dataExtraction |-> data]

NoData == Extraction(<<>>, <<>>, <<>>, <<>>)

\* What local storage may hold when the component mounts: nothing, or the state
\* an earlier run left (the schedule out of date order, as a resolution leaves it)
EmptyStored ==
    [hasInteracted |-> FALSE, history |-> <<>>, contacts |-> <<>>, schedule |-> <<>>,
     expenses |-> <<>>, diary |-> <<>>, chatSessions |-> <<>>,
     activeChatSessionId |-> NewSession, nextId |-> 1]
SeededStored ==
    [hasInteracted |-> TRUE,
     history |-> <<[id |-> 8, input |-> [text |-> "hello", imageName |-> "", imageUrl |-> ""],
                    output |-> [contacts |-> <<>>, schedule |-> <<>>, expenses |-> <<>>,
                                diary |-> <<[id |-> 6, date |-> "2024-05-01", entry |-> "memo",
                                             group |-> DefaultGroup]>>]]>>,
     contacts |-> <<[id |-> 1, name |-> "Kim", phone |-> PhoneDashed, group |-> DefaultGroup],
                    [id |-> 2, name |-> "Han", phone |-> PhoneNoDigit, group |-> "family"],
                    [id |-> 10, name |-> "Noh", phone |-> NoPhone, group |-> DefaultGroup]>>,
     schedule |-> <<[id |-> 3, title |-> TitleOther, date |-> "2024-05-02", time |-> Time0900],
                    [id |-> 4, title |-> TitleSync, date |-> "2024-05-01", time |-> NoTime]>>,
     expenses |-> <<[id |-> 5, date |-> "2024-05-01", item |-> TitleSync, amount |-> 10,
                     type |-> "expense", imageUrl |-> ""]>>,
     diary |-> <<[id |-> 6, date |-> "2024-05-01", entry |-> "memo", group |-> DefaultGroup]>>,
     chatSessions |-> <<[id |-> 7, title |-> "hello",
                         messages |-> <<UserMessage("hello", ""), ModelMessage("hi", <<>>)>>]>>,
     activeChatSessionId |-> 7,
     nextId |-> 11]
StoredStates == {EmptyStored, SeededStored}

\* What the user submits: a text, or an image alone
Inputs == {[text |-> "lunch with Kim", image |-> ""], [text |-> "", image |-> "receipt.png"]}

KimJ == Contact("Kim J.", PhonePlain, "")
Choi == Contact("Choi", PhoneOther, "work")
Lee == Contact("Lee", NoPhone, "")
Park == Contact("Park", PhoneNoDigit, "")
Memo == DiaryEntry("2024-05-01", "memo", "")

\* Extraction results that touch several categories at once
MixedData ==
    { Extraction(<<KimJ, Choi>>,
                 <<ScheduleItem(TitleSyncLoose, "2024-05-01", Time1030),
                   ScheduleItem(TitleJoined, "2024-04-30", NoTime)>>,
                 <<Expense("2024-05-01", TitleSyncLoose, 10, "expense"),
                   Expense("2024-05-01", TitleSync, 20, "expense")>>,
                 <<Memo>>),
      Extraction(<<Lee>>,
                 <<ScheduleItem(TitleJoined, "2024-05-01", Time0900)>>,
                 <<Expense("2024-05-02", TitleSync, 10, "income")>>,
                 <<Memo>>),
      Extraction(<<>>, <<>>, <<>>, <<Memo>>) }

MixedResults ==
    {Answer("done", d) : d \in MixedData}
        \cup {Answer("nothing to save", NoData),
              Question("where to save?", <<"memo", "schedule">>, NoData)}

\* ---------------------------------------------------------------- specification
\* The component mounts with what local storage held
Mounted(stored) ==
    /\ hasInteracted = stored.hasInteracted
    /\ history = stored.history
    /\ contacts = stored.contacts
    /\ schedule = stored.schedule
    /\ expenses = stored.expenses
    /\ diary = stored.diary
    /\ chatSessions = stored.chatSessions
    /\ activeChatSessionId = stored.activeChatSessionId
    /\ nextId = stored.nextId
    /\ isLoading = FALSE
    /\ error = ""
    /\ pendingClarificationInput = NULL
    /\ conflictData = NULL
    /\ call = NULL
    /\ lastOp = "mount"
    /\ pre = NULL
    /\ preRound = NULL
    /\ talk = <<>>

Init ==
    \E stored \in StoredStates :
        /\ Mounted(stored)
        /\ sendsLeft = MaxSends
        /\ actsLeft = MaxActs

\* The chat round trip, the session handlers and the conflict modal's buttons
Chat(inputs, results) ==
    \/ \E i \in inputs : HandleSendMessage(i.text, i.image)
    \/ ImageLoaded
    \/ \E r \in results : GatewayResult(r)
    \/ GatewayError("gateway failed")
    \/ HandleNewChat
    \/ \E sid \in Ids(chatSessions) : HandleSelectChat(sid)
    \/ HandleSidebarViewChange
    \/ HandleConflictConfirm
    \/ HandleConflictCancel
    \/ HandleConflictIgnoreAndAdd

ContactEdits ==
    \/ HandleAddContact(Contact("Kim (work)", PhonePlain, ""))
    \/ \E i \in DOMAIN contacts : HandleUpdateContact([contacts[i] EXCEPT !.phone = PhoneOther])
    \/ \E id \in Ids(contacts) : HandleDeleteContact(id)

ScheduleEdits ==
    \/ HandleAddSchedule(ScheduleItem(TitleJoined, "2024-05-01", NoTime))
    \/ \E i \in DOMAIN schedule : HandleUpdateSchedule([schedule[i] EXCEPT !.title = TitleJoined])
    \/ \E id \in Ids(schedule) : HandleDeleteSchedule(id)

ExpenseEdits ==
    \/ HandleAddExpense(Expense("2024-05-02", TitleSync, 10, "income"))
    \/ \E i \in DOMAIN expenses : HandleUpdateExpense([expenses[i] EXCEPT !.amount = 20])
    \/ \E id \in Ids(expenses) : HandleDeleteExpense(id)

DiaryEdits ==
    \/ HandleAddDiary(Memo)
    \/ \E i \in DOMAIN diary : HandleUpdateDiary([diary[i] EXCEPT !.entry = "note"])
    \/ \E id \in Ids(diary) : HandleDeleteDiary(id)

Next ==
    \/ Chat(Inputs, MixedResults)
    \/ ContactEdits
    \/ ScheduleEdits
    \/ ExpenseEdits
    \/ DiaryEdits

Spec == Init /\ [][Next]_vars

\* ---------------------------------------------------------------- per-category inputs
OnlyContacts(cs) == Answer("done", Extraction(cs, <<>>, <<>>, <<>>))
OnlySchedule(ss) == Answer("done", Extraction(<<>>, ss, <<>>, <<>>))
OnlyExpenses(es) == Answer("done", Extraction(<<>>, <<>>, es, <<>>))

ContactResults ==
    {OnlyContacts(cs) : cs \in {<<KimJ>>, <<Choi>>, <<Lee>>, <<Park>>,
                                <<Lee, KimJ>>, <<KimJ, Choi>>, <<Park, Lee>>}}

SyncLooseSameDay == ScheduleItem(TitleSyncLoose, "2024-05-01", NoTime)
SyncLooseNextDay == ScheduleItem(TitleSyncLoose, "2024-05-02", Time1030)
JoinedSameDay == ScheduleItem(TitleJoined, "2024-05-01", Time1030)
OtherSameTitle == ScheduleItem(TitleOther, "2024-05-02", Time1030)
JoinedNextDay == ScheduleItem(TitleJoined, "2024-05-02", NoTime)
SyncLooseEarlier == ScheduleItem(TitleSyncLoose, "2024-04-30", Time0900)
JoinedMorning == ScheduleItem(TitleJoined, "2024-05-01", Time0900)
ScheduleResults ==
    {OnlySchedule(ss) : ss \in {<<SyncLooseSameDay>>, <<SyncLooseNextDay>>, <<JoinedSameDay>>,
                                <<OtherSameTitle>>,
                                <<JoinedSameDay, SyncLooseSameDay>>,
                                <<JoinedSameDay, JoinedNextDay, SyncLooseEarlier, JoinedMorning>>}}

SameExpense == Expense("2024-05-01", TitleSyncLoose, 10, "expense")
OtherDate == Expense("2024-05-02", TitleSync, 10, "expense")
OtherAmount == Expense("2024-05-01", TitleSync, 20, "expense")
OtherType == Expense("2024-05-01", TitleSync, 10, "income")
OtherLabel == Expense("2024-05-01", TitleJoined, 10, "expense")
ExpenseResults ==
    {OnlyExpenses(es) : es \in {<<SameExpense>>, <<OtherDate>>, <<OtherAmount>>, <<OtherType>>,
                                <<OtherLabel>>, <<OtherAmount, SameExpense>>}}

NextContacts == Chat(Inputs, ContactResults) \/ ContactEdits
SpecContacts == Init /\ [][NextContacts]_vars

NextSchedule == Chat(Inputs, ScheduleResults) \/ ScheduleEdits
SpecSchedule == Init /\ [][NextSchedule]_vars

NextExpenses == Chat(Inputs, ExpenseResults) \/ ExpenseEdits
SpecExpenses == Init /\ [][NextExpenses]_vars

\* ---------------------------------------------------------------- a conversation
\* Several rounds of one conversation: an ambiguous request, its clarifying
\* replies, results with and without records, with and without a question
TalkInputs ==
    {[text |-> "finish chapter 1", image |-> ""],
     [text |-> "Schedule", image |-> "memo.png"]}
ChapterOne == ScheduleItem(TitleJoined, "2024-04-30", NoTime)
TalkResults ==
    {Question("where to save?", <<"To-do list", "Memo", "Schedule">>, NoData),
     Question("which Kim?", <<"Kim", "Kim J.">>, Extraction(<<KimJ>>, <<>>, <<>>, <<Memo>>)),
     Answer("saved", Extraction(<<>>, <<ChapterOne>>, <<OtherDate>>, <<>>)),
     Answer("saved", Extraction(<<KimJ>>, <<>>, <<OtherAmount>>, <<Memo>>)),
     Answer("nothing to save", NoData)}

InitTalk ==
    /\ Mounted(SeededStored)
    /\ sendsLeft = MaxRounds
    /\ actsLeft = MaxSwitches
NextTalk == Chat(TalkInputs, TalkResults)
SpecTalk == InitTalk /\ [][NextTalk]_vars

\* ---------------------------------------------------------------- receipts
\* A conversation about expenses: each input comes with an image, the results
\* are a question, expenses that collide with nothing, expenses of which one
\* collides with the expense local storage held
ReceiptInputs ==
    {[text |-> "Schedule", image |-> "memo.png"],
     [text |-> "", image |-> "receipt.png"]}
ReceiptResults ==
    {Question("where to save?", <<"To-do list", "Memo", "Schedule">>, NoData),
     OnlyExpenses(<<OtherDate>>),
     OnlyExpenses(<<OtherAmount, SameExpense>>)}
NextReceipts == Chat(ReceiptInputs, ReceiptResults)
SpecReceipts == InitTalk /\ [][NextReceipts]_vars

\* ---------------------------------------------------------------- backup files
\* The JSON object a backup file holds
Backup(hi, h, cs, ss, es, ds, chats, active) ==
    [isText |-> TRUE, isJson |-> TRUE,
     state |-> Value([hasInteracted |-> hi, history |-> h, contacts |-> cs, schedule |-> ss,
                      expenses |-> es, diary |-> ds, chatSessions |-> chats,
                      activeChatSessionId |-> active])]
\* An export of another installation
OtherBackup ==
    Backup(Value(TRUE), List(<<>>),
           List(<<[id |-> 31, name |-> "Choi", phone |-> PhoneOther, group |-> "work"]>>),
           List(<<>>), List(<<>>),
           List(<<[id |-> 32, date |-> "2024-05-02", entry |-> "note", group |-> DefaultGroup]>>),
           List(<<[id |-> 33, title |-> "hi", messages |-> <<UserMessage("hi", "")>>]>>),
           Value(33))
\* The six lists and nothing else
BareBackup ==
    Backup(Missing, List(<<>>), List(<<>>), List(<<>>), List(<<>>), List(<<>>), List(<<>>),
           Missing)
\* A backup whose chat sessions were removed, the active one included
TrimmedBackup ==
    Backup(Value(TRUE), List(<<>>), List(<<>>), List(<<>>), List(<<>>), List(<<>>), List(<<>>),
           Value(33))
\* One key is missing; one key holds an object; the JSON value null; a text
\* that is not JSON
NoDiaryBackup ==
    Backup(Value(TRUE), List(<<>>), List(<<>>), List(<<>>), List(<<>>), Missing, List(<<>>),
           Value(NewSession))
ContactsObjectBackup ==
    Backup(Value(TRUE), List(<<>>), Value("object"), List(<<>>), List(<<>>), List(<<>>),
           List(<<>>), Value(NewSession))
NullFile == [isText |-> TRUE, isJson |-> TRUE, state |-> Missing]
NotJsonFile == [isText |-> TRUE, isJson |-> FALSE]
Files == {OtherBackup, BareBackup, TrimmedBackup, NoDiaryBackup, ContactsObjectBackup,
          NullFile, NotJsonFile}

ImportResults ==
    {OnlyContacts(<<KimJ>>), Answer("nothing to save", NoData),
     Question("which Kim?", <<"Kim", "Kim J.">>, NoData)}

InitImport ==
    /\ Mounted(SeededStored)
    /\ sendsLeft = MaxSends
    /\ actsLeft = MaxActs
NextImport ==
    \/ Chat(Inputs, ImportResults)
    \/ \E file \in Files : \E confirmed \in BOOLEAN : HandleImportData(file, confirmed)
SpecImport == InitImport /\ [][NextImport]_vars

\* The FileReader finishes reading the image; processChat returns or throws
Returns ==
    \/ \E r \in ImportResults : GatewayResult(r)
    \/ GatewayError("gateway failed")
SpecImportLive == SpecImport /\ WF_vars(ImageLoaded) /\ WF_vars(Returns)

\* ================================================================ claims
\* The last step processed a gateway result that asks no clarification and
\* carries at least one record
DataRound ==
    /\ lastOp = "result"
    /\ ~pre.result.clarificationNeeded
    /\ hasExtractedData(pre.result.dataExtraction)

\* What the Duplicate Detector reported for that result: it read the collections
\* held by the handleSendMessage invocation that processed the result
Reported ==
    DuplicateCheck(pre.result.dataExtraction, pre.call.closure.contacts,
                   pre.call.closure.schedule, pre.call.closure.expenses)
CollisionReported ==
    \/ Reported.conflicts.contacts # <<>>
    \/ Reported.conflicts.schedule # <<>>
    \/ Reported.conflicts.expenses # <<>>

\* The result just processed captured a ConflictSession (a session that was
\* outstanding before is another one: every session has its own HistoryItem)
Captured == conflictData # NULL /\ conflictData # pre.conflictData

\* The records of prev whose id is not among ids, in prev's order
Surviving(prev, ids) ==
    SelectSeq(prev, LAMBDA r : \A i \in DOMAIN ids : ids[i] # r.id)
IsPrefix(p, s) == Len(p) <= Len(s) /\ SubSeq(s, 1, Len(p)) = p

\* C1: a result with a collision only captures a ConflictSession: the four
\* collections and the history are what they were before the result was
\* processed, and stay so for as long as the session is outstanding.
C1_ConflictCommitsNothing ==
    /\ (DataRound /\ CollisionReported) => (conflictData # NULL /\ Store = pre.store)
    /\ conflictData # NULL => (preRound # NULL /\ Store = preRound.store)

\* C2: Cancel discards the session and leaves the collections and the history
\* as they were before the result that produced the conflict was processed.
C2_CancelRestores ==
    lastOp = "cancel" =>
        /\ conflictData = NULL
        /\ Store = pre.store
        /\ Store = preRound.store

\* C3: Replace leaves contacts, schedule and expenses as the existing records
\* minus the colliding originals, followed by all new records; the pending
\* HistoryItem is prepended and the resolver is Idle.
C3_ReplaceResult ==
    lastOp = "confirm" =>
        LET cd == pre.conflictData
            old == pre.store
        IN  /\ contacts = Surviving(old.contacts, cd.conflictingOriginalIds.contacts)
                              \o cd.categorizedResult.contacts
            /\ schedule = Surviving(old.schedule, cd.conflictingOriginalIds.schedule)
                              \o cd.categorizedResult.schedule
            /\ expenses = Surviving(old.expenses, cd.conflictingOriginalIds.expenses)
                              \o cd.categorizedResult.expenses
            /\ history = <<cd.newHistoryItem>> \o old.history
            /\ conflictData = NULL
\* a Replace with a colliding and a non-colliding new contact, one existing
\* contact removed and one kept
C3_Witness ==
    /\ lastOp = "confirm"
    /\ Len(pre.conflictData.conflicts.contacts) = 1
    /\ Len(pre.conflictData.categorizedResult.contacts) = 2
    /\ Len(pre.store.contacts) = 3
    /\ Len(contacts) = 4
    /\ pre.conflictData.conflicts.schedule # <<>>
    /\ pre.conflictData.conflicts.expenses # <<>>

\* C4: a second Replace of the same session, applied to what the first one
\* produced, leaves the identifier sets of the four collections as they are.
C4_ReplaceIdempotentOnIds ==
    lastOp = "confirm" =>
        LET again == confirmStore(Store, pre.conflictData)
        IN  /\ Ids(again.contacts) = Ids(contacts)
            /\ Ids(again.schedule) = Ids(schedule)
            /\ Ids(again.expenses) = Ids(expenses)
            /\ Ids(again.diary) = Ids(diary)
C4_Witness ==
    /\ lastOp = "confirm"
    /\ pre.conflictData.conflictingOriginalIds.contacts # <<>>
    /\ pre.conflictData.categorizedResult.diary # <<>>
    /\ Len(contacts) > Len(pre.conflictData.categorizedResult.contacts)

\* C5: Ignore-and-append grows each collection by the number of new records of
\* its category, removes nothing, prepends the pending HistoryItem and returns
\* to Idle.
C5_IgnoreAppends ==
    lastOp = "ignore" =>
        LET new == pre.conflictData.categorizedResult
            old == pre.store
        IN  /\ Len(contacts) = Len(old.contacts) + Len(new.contacts)
            /\ Len(schedule) = Len(old.schedule) + Len(new.schedule)
            /\ Len(expenses) = Len(old.expenses) + Len(new.expenses)
            /\ Len(diary) = Len(old.diary) + Len(new.diary)
            /\ IsPrefix(old.contacts, contacts)
            /\ IsPrefix(old.schedule, schedule)
            /\ IsPrefix(old.expenses, expenses)
            /\ IsPrefix(old.diary, diary)
            /\ Range(new.contacts) \subseteq Range(contacts)
            /\ Range(new.schedule) \subseteq Range(schedule)
            /\ Range(new.expenses) \subseteq Range(expenses)
            /\ Range(new.diary) \subseteq Range(diary)
            /\ history = <<pre.conflictData.newHistoryItem>> \o old.history
            /\ conflictData = NULL
C5_Witness ==
    /\ lastOp = "ignore"
    /\ pre.store.contacts # <<>>
    /\ pre.conflictData.conflicts.contacts # <<>>
    /\ pre.conflictData.categorizedResult.schedule # <<>>
    /\ pre.conflictData.categorizedResult.expenses # <<>>
    /\ pre.conflictData.categorizedResult.diary # <<>>

\* C6: a data-carrying result for which the detector reports no collision is
\* committed in the step that processes it: every record is in its collection,
\* the new HistoryItem is at the head of the history, no session is created.
C6_AutoCommit ==
    (DataRound /\ ~CollisionReported) =>
        /\ conflictData = pre.conflictData
        /\ Len(history) = Len(pre.store.history) + 1
        /\ Tail(history) = pre.store.history
        /\ history[1].input \in {pre.call.userInputLog, pre.call.closure.pendingClarificationInput}
        /\ LET new == history[1].output
           IN  /\ Len(new.contacts) = Len(pre.result.dataExtraction.contacts)
               /\ Len(new.schedule) = Len(pre.result.dataExtraction.schedule)
               /\ Len(new.expenses) = Len(pre.result.dataExtraction.expenses)
               /\ Len(new.diary) = Len(pre.result.dataExtraction.diary)
               /\ contacts = pre.store.contacts \o new.contacts
               /\ expenses = pre.store.expenses \o new.expenses
               /\ diary = pre.store.diary \o new.diary
               /\ Range(schedule) = Range(pre.store.schedule) \cup Range(new.schedule)
               /\ Len(schedule) = Len(pre.store.schedule) + Len(new.schedule)
C6_Witness ==
    /\ DataRound
    /\ ~CollisionReported
    /\ pre.store.history # <<>>
    /\ pre.result.dataExtraction.contacts # <<>>
    /\ pre.result.dataExtraction.schedule # <<>>
    /\ conflictData = NULL

\* ---------------------------------------------------------------- claim-side notions
\* The records of the round as the handler numbered them: they are in the
\* ConflictSession if one was captured, in the new HistoryItem otherwise
RoundRecords ==
    IF Captured THEN conflictData.categorizedResult ELSE history[1].output

\* The digits of a phone number, in order
DigitsOf(phone) ==
    LET at == {i \in DOMAIN phone : phone[i] \in {"0", "1", "2", "3", "4", "5", "6", "7", "8", "9"}}
        nth(k) == CHOOSE i \in at : Cardinality({j \in at : j < i}) = k - 1
    IN  [k \in 1..Cardinality(at) |-> phone[nth(k)]]

\* A label without its outer blanks, letters folded to lower case
Canonical(label) ==
    LET inked == {i \in DOMAIN label : label[i] # " "}
        fold(ch) == CASE ch = "A" -> "a" [] ch = "B" -> "b" [] ch = "C" -> "c" [] OTHER -> ch
    IN  IF inked = {} THEN <<>>
        ELSE LET first == CHOOSE i \in inked : \A j \in inked : i <= j
                 last == CHOOSE i \in inked : \A j \in inked : j <= i
             IN  [k \in 1..(last - first + 1) |-> fold(label[first + k - 1])]

\* The new record n was reported as colliding / as colliding with the existing record b
Flagged(kind, n) ==
    /\ Captured
    /\ \E i \in DOMAIN conflictData.conflicts[kind] : conflictData.conflicts[kind][i] = n
FlaggedWith(kind, n, b) ==
    /\ Captured
    /\ \E i \in DOMAIN conflictData.conflicts[kind] :
          /\ conflictData.conflicts[kind][i] = n
          /\ conflictData.conflictingOriginalIds[kind][i] = b.id

\* Minutes since midnight of a time HH:MM
DigitValue(ch) ==
    CASE ch = "0" -> 0 [] ch = "1" -> 1 [] ch = "2" -> 2 [] ch = "3" -> 3 [] ch = "4" -> 4
      [] ch = "5" -> 5 [] ch = "6" -> 6 [] ch = "7" -> 7 [] ch = "8" -> 8 [] ch = "9" -> 9
MinutesOf(time) ==
    (DigitValue(time[1]) * 10 + DigitValue(time[2])) * 60
        + DigitValue(time[4]) * 10 + DigitValue(time[5])
\* a may stand before b in a schedule ordered by date, then time, no time first
InOrder(a, b) ==
    \/ getTime(a.date) < getTime(b.date)
    \/ /\ getTime(a.date) = getTime(b.date)
       /\ \/ a.time = NoTime
          \/ b.time # NoTime /\ MinutesOf(a.time) <= MinutesOf(b.time)

\* C7: after an automatic commit the whole schedule is ordered by date, and
\* within a date by time, items without a time first.
C7_ScheduleSorted ==
    (DataRound /\ ~CollisionReported) =>
        \A i, j \in DOMAIN schedule : i < j => InOrder(schedule[i], schedule[j])
\* several items were inserted into a schedule that was out of order, among
\* them a timed and an untimed one for a date that already had an item
C7_Witness ==
    /\ DataRound
    /\ ~CollisionReported
    /\ Len(history[1].output.schedule) >= 3
    /\ \E i, j \in DOMAIN pre.store.schedule :
          i < j /\ ~InOrder(pre.store.schedule[i], pre.store.schedule[j])
    /\ \E i, j \in DOMAIN schedule :
          /\ schedule[i].date = schedule[j].date
          /\ schedule[i].time = NoTime
          /\ schedule[j].time # NoTime

\* C8 as stated: two non-empty phones with equal digit strings are flagged; a
\* pair with an empty phone never is.
C8_AsStated ==
    DataRound =>
        \A n \in Range(RoundRecords.contacts) : \A b \in Range(pre.call.closure.contacts) :
            /\ (n.phone # <<>> /\ b.phone # <<>> /\ DigitsOf(n.phone) = DigitsOf(b.phone))
                  => Flagged("contacts", n)
            /\ (n.phone = <<>> \/ b.phone = <<>>) => ~FlaggedWith("contacts", n, b)
\* C8, amended: two phones with at least one digit and equal digit strings are
\* flagged; a pair in which a phone is empty or has no digit never is.
C8_PhoneCollision ==
    DataRound =>
        \A n \in Range(RoundRecords.contacts) : \A b \in Range(pre.call.closure.contacts) :
            /\ (DigitsOf(n.phone) # <<>> /\ DigitsOf(n.phone) = DigitsOf(b.phone))
                  => Flagged("contacts", n)
            /\ (DigitsOf(n.phone) = <<>> \/ DigitsOf(b.phone) = <<>>)
                  => ~FlaggedWith("contacts", n, b)
            /\ DigitsOf(n.phone) = <<>> => ~Flagged("contacts", n)
\* a new contact without a phone beside one whose number, written differently,
\* has the digits of an existing contact's number
C8_Witness ==
    /\ DataRound
    /\ \E n \in Range(RoundRecords.contacts) : n.phone = <<>> /\ ~Flagged("contacts", n)
    /\ \E n \in Range(RoundRecords.contacts) : \E b \in Range(pre.call.closure.contacts) :
          /\ n.phone # b.phone
          /\ DigitsOf(n.phone) = DigitsOf(b.phone)
          /\ FlaggedWith("contacts", n, b)
    /\ \E b \in Range(pre.call.closure.contacts) : b.phone = <<>>

SameScheduleItem(n, b) == n.date = b.date /\ Canonical(n.title) = Canonical(b.title)
\* C9: a new schedule item is flagged exactly when an existing item has the
\* same date and the same title up to case and outer blanks, and it is flagged
\* with such an item.
C9_ScheduleCollision ==
    DataRound =>
        \A n \in Range(RoundRecords.schedule) :
            /\ Flagged("schedule", n)
                 <=> \E b \in Range(pre.call.closure.schedule) : SameScheduleItem(n, b)
            /\ \A b \in Range(pre.call.closure.schedule) :
                 FlaggedWith("schedule", n, b) => SameScheduleItem(n, b)
\* one new item flagged for a title that differs in case and blanks, one not
\* flagged although an existing item has its date
C9_Witness ==
    /\ DataRound
    /\ \E n \in Range(RoundRecords.schedule) : \E b \in Range(pre.call.closure.schedule) :
          n.title # b.title /\ FlaggedWith("schedule", n, b)
    /\ \E n \in Range(RoundRecords.schedule) :
          /\ ~Flagged("schedule", n)
          /\ \E b \in Range(pre.call.closure.schedule) : b.date = n.date

SameExpenseRecord(n, b) ==
    /\ n.date = b.date
    /\ n.amount = b.amount
    /\ n.type = b.type
    /\ Canonical(n.item) = Canonical(b.item)
\* C10: a new expense is flagged exactly when an existing expense has the same
\* date, amount, type and label up to case and outer blanks, and it is flagged
\* with such an expense.
C10_ExpenseCollision ==
    DataRound =>
        \A n \in Range(RoundRecords.expenses) :
            /\ Flagged("expenses", n)
                 <=> \E b \in Range(pre.call.closure.expenses) : SameExpenseRecord(n, b)
            /\ \A b \in Range(pre.call.closure.expenses) :
                 FlaggedWith("expenses", n, b) => SameExpenseRecord(n, b)
\* one new expense flagged for a label that differs in case and blanks, one not
\* flagged that differs from the same existing expense in the amount alone
C10_Witness ==
    /\ DataRound
    /\ \E n \in Range(RoundRecords.expenses) : \E b \in Range(pre.call.closure.expenses) :
          n.item # b.item /\ FlaggedWith("expenses", n, b)
    /\ \E n \in Range(RoundRecords.expenses) : \E b \in Range(pre.call.closure.expenses) :
          /\ ~Flagged("expenses", n)
          /\ n.date = b.date /\ n.type = b.type /\ n.item = b.item /\ n.amount # b.amount

\* ---------------------------------------------------------------- diary
\* The result carries diary entries and nothing else
DiaryOnly(data) ==
    /\ data.diary # <<>>
    /\ data.contacts = <<>>
    /\ data.schedule = <<>>
    /\ data.expenses = <<>>
\* The stored entry d says what the extracted entry n says
SameDiaryEntry(d, n) ==
    /\ d.date = n.date
    /\ d.entry = n.entry
    /\ d.group = (IF n.group = "" THEN "gita" ELSE n.group)

\* C11: diary entries take no part in collision detection: a result with
\* diary entries only is committed in the step that processes it and creates
\* no ConflictSession, and the automatic commit, Replace and Ignore-and-append
\* all leave the diary as the existing entries followed by all new entries.
C11_DiaryAlwaysAppended ==
    /\ (DataRound /\ DiaryOnly(pre.result.dataExtraction)) =>
          /\ conflictData = pre.conflictData
          /\ Len(diary) = Len(pre.store.diary) + Len(pre.result.dataExtraction.diary)
          /\ IsPrefix(pre.store.diary, diary)
          /\ \A i \in DOMAIN pre.result.dataExtraction.diary :
                SameDiaryEntry(diary[Len(pre.store.diary) + i], pre.result.dataExtraction.diary[i])
    /\ (DataRound /\ ~Captured) =>
          diary = pre.store.diary \o history[1].output.diary
    /\ lastOp \in {"confirm", "ignore"} =>
          diary = pre.store.diary \o pre.conflictData.categorizedResult.diary
\* a result with nothing but a diary entry that says what a stored entry says
C11_Witness ==
    /\ DataRound
    /\ DiaryOnly(pre.result.dataExtraction)
    /\ \E i \in DOMAIN pre.store.diary :
          SameDiaryEntry(pre.store.diary[i], pre.result.dataExtraction.diary[1])
    /\ Len(diary) = Len(pre.store.diary) + 1

\* ---------------------------------------------------------------- one session at a time
\* C12: while a ConflictSession is outstanding no handleSendMessage invocation
\* starts or is in flight: the last step was not a submission and no call waits.
C12_NoSendDuringConflict ==
    conflictData # NULL =>
        /\ lastOp \notin {"send", "image"}
        /\ call = NULL

\* C13: an outstanding ConflictSession changes only by Replace, Cancel or
\* Ignore-and-append: no other step, the processing of a later result
\* included, puts another session or none in its place.
C13_SessionNeverDropped ==
    [][(conflictData # NULL /\ conflictData' # conflictData)
          => lastOp' \in {"confirm", "cancel", "ignore"}]_vars

\* ---------------------------------------------------------------- clarification
\* The last step processed a gateway result that asks for clarification
QuestionRound == lastOp = "result" /\ pre.result.clarificationNeeded
\* The session with identifier sid in the list sessions
SessionOf(sessions, sid) == CHOOSE x \in Range(sessions) : x.id = sid

\* C14: a result with clarificationNeeded set adds the question and its options
\* to the chat session of the request and commits nothing: the collections, the
\* history and the ConflictSession are as before, whatever records it carries.
C14_ClarificationCommitsNothing ==
    QuestionRound =>
        LET sid == pre.call.currentSessionId
            before == SessionOf(pre.chatSessions, sid).messages
            after == SessionOf(chatSessions, sid).messages
        IN  /\ Store = pre.store
            /\ conflictData = pre.conflictData
            /\ Len(after) = Len(before) + 1
            /\ IsPrefix(before, after)
            /\ Last(after).role = "model"
            /\ Last(after).text = pre.result.answer
            /\ Last(after).clarificationOptions = pre.result.clarificationOptions
            /\ \A x \in Range(chatSessions) : x.id # sid => x \in Range(pre.chatSessions)
\* the question came with extracted records, one of which has the number of a
\* stored contact
C14_Witness ==
    /\ QuestionRound
    /\ pre.result.dataExtraction.contacts # <<>>
    /\ pre.result.dataExtraction.diary # <<>>
    /\ pre.result.clarificationOptions # <<>>
    /\ \E b \in Range(contacts) :
          DigitsOf(b.phone) = DigitsOf(pre.result.dataExtraction.contacts[1].phone)

\* The exchange since the last result without a question, error or change of
\* session is made of clarification rounds only, each sent and answered in it,
\* and no PendingClarification was stored when the first of them was sent
OnlyQuestions ==
    /\ talk # <<>>
    /\ Len(talk) % 2 = 0
    /\ \A i \in DOMAIN talk : talk[i].kind = (IF i % 2 = 1 THEN "send" ELSE "question")
    /\ ~talk[1].awaiting

\* C15: a clarification round that finds a PendingClarification stored leaves
\* it untouched, and after consecutive clarification rounds in one session,
\* the first of which found none stored, the PendingClarification is the
\* input of the first of them.
C15_FirstPendingWins ==
    /\ (QuestionRound /\ pre.pendingClarificationInput # NULL)
          => pendingClarificationInput = pre.pendingClarificationInput
    /\ (QuestionRound /\ OnlyQuestions) => pendingClarificationInput = talk[1].input
\* two clarification rounds in a row, the second for another input
C15_Witness ==
    /\ QuestionRound
    /\ OnlyQuestions
    /\ Len(talk) = 4
    /\ talk[3].input # talk[1].input
    /\ pendingClarificationInput = talk[1].input

\* The HistoryItem of the round just processed: in the ConflictSession if one
\* was captured, at the head of the history otherwise
RoundItem == IF Captured THEN conflictData.newHistoryItem ELSE history[1]

\* C16: a data-carrying result that finds a PendingClarification stored clears
\* it and gives its HistoryItem the stored input, and that is the input of the
\* item a later Replace or Ignore-and-append puts in the history.
C16_HistoryKeepsOriginal ==
    /\ (DataRound /\ pre.pendingClarificationInput # NULL) =>
          /\ RoundItem.input = pre.pendingClarificationInput
          /\ pendingClarificationInput = NULL
    /\ (lastOp \in {"confirm", "ignore"} /\ preRound.pendingClarificationInput # NULL) =>
          /\ history[1].input = preRound.pendingClarificationInput
          /\ pendingClarificationInput = NULL
\* "finish chapter 1" was answered by a question, the reply by records that
\* collided; Replace put the item in the history
C16_Witness ==
    /\ lastOp = "confirm"
    /\ preRound.pendingClarificationInput # NULL
    /\ preRound.call.userInputLog # preRound.pendingClarificationInput
    /\ history[1].input.text = "finish chapter 1"
    /\ preRound.call.userInputLog.text = "Schedule"

\* C17: right after handleNewChat or handleSelectChat no PendingClarification
\* is stored.
C17_SwitchClearsPending ==
    lastOp \in {"newChat", "selectChat"} => pendingClarificationInput = NULL
\* a new conversation was started while a question was waiting for its reply
C17_Witness ==
    /\ lastOp = "newChat"
    /\ pre.pendingClarificationInput # NULL
    /\ pre.call = NULL
    /\ activeChatSessionId = NewSession

\* The input was typed in the session sid: the session is in the list and has
\* a user message with the text and the image of the input
TypedIn(input, sid) ==
    \E x \in Range(chatSessions) :
        /\ x.id = sid
        /\ \E i \in DOMAIN x.messages :
              /\ x.messages[i].role = "user"
              /\ x.messages[i].text = input.text
              /\ x.messages[i].imageUrl = input.imageUrl

\* C18: a stored PendingClarification is an input typed in the active session,
\* and the input of the HistoryItem of a round was typed in the session of the
\* message that the round answered.
C18_PendingStaysInSession ==
    /\ pendingClarificationInput # NULL
          => TypedIn(pendingClarificationInput, activeChatSessionId)
    /\ DataRound => TypedIn(RoundItem.input, pre.call.currentSessionId)

\* ---------------------------------------------------------------- failed rounds
\* C19: after a gateway error the error indicator is set, the error is the last
\* message, from the model, of the session of the request, and neither a
\* ConflictSession nor a PendingClarification is outstanding.
C19_ErrorClearsPending ==
    lastOp = "error" =>
        LET sid == pre.call.currentSessionId
            before == SessionOf(pre.chatSessions, sid).messages
            after == SessionOf(chatSessions, sid).messages
        IN  /\ error # ""
            /\ after = before \o <<Last(after)>>
            /\ Last(after).role = "model"
            /\ conflictData = NULL
            /\ pendingClarificationInput = NULL

\* C20: a failed round commits nothing: the steps handleSendMessage takes in
\* it (the submission, the reading of the image, the handling of the error)
\* leave the collections and the history as they are.
C20_ErrorCommitsNothing ==
    [][lastOp' \in {"send", "image", "error"} => Store' = Store]_vars
\* the call failed with records stored and a history to lose
C20_Witness ==
    /\ lastOp = "error"
    /\ pre.store.history # <<>>
    /\ pre.store.contacts # <<>>
    /\ pre.store.diary # <<>>
    /\ call = NULL

\* ---------------------------------------------------------------- the history log
\* The step commits an extraction round: Replace, Ignore-and-append, or the
\* processing of a result that carries records and captures no session
CommitStep ==
    \/ lastOp' \in {"confirm", "ignore"}
    \/ /\ lastOp' = "result"
       /\ ~pre'.result.clarificationNeeded
       /\ hasExtractedData(pre'.result.dataExtraction)
       /\ conflictData' = conflictData

\* C21: every step that commits a round puts exactly one item at the head of
\* the history (Replace and Ignore-and-append the item of the session), above
\* the items that were there, unchanged and in their order; every other step
\* (a clarification round, an answer without records, a round that captures a
\* session, a gateway error, Cancel, a submission, a change of chat session)
\* leaves the history as it is.
C21_HistoryPrependOnly ==
    [][IF CommitStep
       THEN /\ Len(history') = Len(history) + 1
            /\ Tail(history') = history
            /\ lastOp' \in {"confirm", "ignore"} => Head(history') = conflictData.newHistoryItem
       ELSE history' = history]_vars
\* Replace put the item of a session above the item of an earlier automatic
\* commit and the item local storage held
C21_Witness ==
    /\ lastOp = "confirm"
    /\ Len(history) = 3
    /\ history[1] = pre.conflictData.newHistoryItem
    /\ history[3].id = 8

\* ---------------------------------------------------------------- identifiers
UniqueIds(s) == \A i, j \in DOMAIN s : s[i].id = s[j].id => i = j
AllIds(data) == Ids(data.contacts) \cup Ids(data.schedule) \cup Ids(data.expenses) \cup Ids(data.diary)
EachUnique ==
    /\ UniqueIds(contacts)
    /\ UniqueIds(schedule)
    /\ UniqueIds(expenses)
    /\ UniqueIds(diary)
    /\ UniqueIds(history)
\* The records the last step added to the four collections
Added ==
    [contacts |-> SelectSeq(contacts, LAMBDA r : r \notin Range(pre.store.contacts)),
     schedule |-> SelectSeq(schedule, LAMBDA r : r \notin Range(pre.store.schedule)),
     expenses |-> SelectSeq(expenses, LAMBDA r : r \notin Range(pre.store.expenses)),
     diary |-> SelectSeq(diary, LAMBDA r : r \notin Range(pre.store.diary))]

SixLists(file) ==
    /\ file.isText /\ file.isJson
    /\ ~file.state.nullish
    /\ \A key \in {"contacts", "schedule", "expenses", "diary", "history", "chatSessions"} :
          file.state.value[key].isArray
\* The state of the component, persisted or not
ComponentState ==
    <<hasInteracted, history, contacts, schedule, expenses, diary, chatSessions,
      activeChatSessionId, isLoading, error, pendingClarificationInput, conflictData,
      call, nextId>>

\* C23: an import step changes nothing unless the file holds the six lists and
\* the user confirmed; then each of the eight persisted keys has the value of
\* the file (hasInteracted true and activeChatSessionId 'new' if the file has
\* none).
C23_ImportAllOrNothing ==
    [][lastOp' = "import" =>
          IF SixLists(pre'.result.file) /\ pre'.result.confirmed
          THEN LET importedState == pre'.result.file.state.value
               IN  /\ history' = importedState.history.value
                   /\ contacts' = importedState.contacts.value
                   /\ schedule' = importedState.schedule.value
                   /\ expenses' = importedState.expenses.value
                   /\ diary' = importedState.diary.value
                   /\ chatSessions' = importedState.chatSessions.value
                   /\ hasInteracted' = (IF importedState.hasInteracted.nullish THEN TRUE
                                        ELSE importedState.hasInteracted.value)
                   /\ activeChatSessionId' =
                         (IF importedState.activeChatSessionId.nullish THEN NewSession
                          ELSE importedState.activeChatSessionId.value)
          ELSE UNCHANGED ComponentState]_vars
\* the backup of another installation took the place of a store with records,
\* a history and a chat session
C23_Witness ==
    /\ lastOp = "import"
    /\ pre.result.file = OtherBackup
    /\ pre.result.confirmed
    /\ Len(pre.store.contacts) = 3
    /\ pre.store.history # <<>>
    /\ Len(contacts) = 1
    /\ history = <<>>
    /\ activeChatSessionId = 33

\* ---------------------------------------------------------------- one request at a time
\* C24: a handleSendMessage invocation starts only while none is in flight and
\* isLoading is false; while one is in flight isLoading is true and it is the
\* same invocation until its gateway call has returned or failed.
C24_OneRequestInFlight ==
    [][/\ lastOp' = "send" => (~isLoading /\ call = NULL)
       /\ call' # NULL => isLoading'
       /\ (call # NULL /\ call' # NULL) =>
             /\ lastOp' # "send"
             /\ call'.closure = call.closure
             /\ call'.text = call.text
             /\ call'.image = call.image]_vars
\* the last submission the bounds allow is in flight, the earlier ones ended
C24_Witness ==
    /\ lastOp = "send"
    /\ sendsLeft = 0
    /\ isLoading
    /\ call # NULL
    /\ Len(SessionOf(chatSessions, activeChatSessionId).messages) >= 5

\* ---------------------------------------------------------------- transcripts
\* The messages of the session sid in the list sessions; none if it is not there
MessagesOf(sessions, sid) ==
    LET hit == SelectSeq(sessions, LAMBDA x : x.id = sid)
    IN  IF hit = <<>> THEN <<>> ELSE hit[1].messages
\* The step appends exactly msg to the session sid and leaves the other
\* sessions as they are
Appends(sid, msg) ==
    /\ MessagesOf(chatSessions', sid) = Append(MessagesOf(chatSessions, sid), msg)
    /\ \A x \in Range(chatSessions') : x.id # sid => x \in Range(chatSessions)
    /\ \A x \in Range(chatSessions) : x.id # sid => x \in Range(chatSessions')
\* The step is the one in which an invocation adds its user message: it goes
\* on to wait for the gateway
AddsUserMessage ==
    /\ lastOp' \in {"send", "image"}
    /\ call' # NULL
    /\ call'.pc = "processChat"

\* C25: no step removes a session or removes, changes or reorders a message of
\* a session; the step that adds the user message of an invocation appends it
\* to the session that was active when the message was sent (a new session if
\* none was); the step that processes the result or the error of the
\* invocation appends the reply to that same session, right after the user
\* message, whatever session is active then.
C25_TranscriptAppendOnly ==
    [][/\ \A x \in Range(chatSessions) :
             IsPrefix(x.messages, MessagesOf(chatSessions', x.id))
       /\ AddsUserMessage =>
             LET sentIn == call'.closure.activeChatSessionId
             IN  /\ call'.currentSessionId = (IF sentIn = NewSession THEN nextId ELSE sentIn)
                 /\ sentIn = NewSession => call'.currentSessionId \notin Ids(chatSessions)
                 /\ Appends(call'.currentSessionId, UserMessage(call'.text, call'.imageUrl))
       /\ lastOp' \in {"result", "error"} =>
             /\ Last(MessagesOf(chatSessions, call.currentSessionId))
                   = UserMessage(call.text, call.imageUrl)
             /\ Appends(call.currentSessionId, Last(MessagesOf(chatSessions', call.currentSessionId)))
             /\ Last(MessagesOf(chatSessions', call.currentSessionId)).role = "model"
             /\ lastOp' = "result" =>
                   /\ Last(MessagesOf(chatSessions', call.currentSessionId)).text
                         = pre'.result.answer
                   /\ Last(MessagesOf(chatSessions', call.currentSessionId)).clarificationOptions
                         = pre'.result.clarificationOptions]_vars
\* the question that answers a message sent in session 7 was appended to
\* session 7 after the user had started a new conversation
C25_Witness ==
    /\ QuestionRound
    /\ pre.call.currentSessionId = 7
    /\ activeChatSessionId = NewSession
    /\ Len(MessagesOf(chatSessions, 7)) = 4
    /\ MessagesOf(chatSessions, 7)[3].role = "user"
    /\ MessagesOf(chatSessions, 7)[4].clarificationOptions # <<>>

\* ---------------------------------------------------------------- edits in flight
\* C26: a new record is flagged exactly when it collides, by the rule of its
\* category, with a record that is committed when the result is processed.
C26_DetectsAgainstCurrent ==
    DataRound =>
        /\ \A n \in Range(RoundRecords.contacts) :
              Flagged("contacts", n)
                <=> \E b \in Range(pre.store.contacts) :
                       DigitsOf(n.phone) # <<>> /\ DigitsOf(n.phone) = DigitsOf(b.phone)
        /\ \A n \in Range(RoundRecords.schedule) :
              Flagged("schedule", n)
                <=> \E b \in Range(pre.store.schedule) : SameScheduleItem(n, b)
        /\ \A n \in Range(RoundRecords.expenses) :
              Flagged("expenses", n)
                <=> \E b \in Range(pre.store.expenses) : SameExpenseRecord(n, b)

\* ---------------------------------------------------------------- receipt images
\* C27: when a result with records resolves a PendingClarification that holds
\* an image reference, every expense of the result carries that reference, be
\* it committed at once or kept in a ConflictSession; Replace and
\* Ignore-and-append commit the expenses of the session as they are there.
C27_PendingImageOnExpenses ==
    /\ (/\ DataRound
        /\ pre.pendingClarificationInput # NULL
        /\ pre.pendingClarificationInput.imageUrl # "")
          => /\ \A e \in Range(RoundRecords.expenses) :
                   e.imageUrl = pre.pendingClarificationInput.imageUrl
             /\ ~Captured => \A e \in Range(RoundRecords.expenses) : e \in Range(expenses)
    /\ lastOp \in {"confirm", "ignore"} =>
          \A e \in Range(pre.conflictData.categorizedResult.expenses) : e \in Range(expenses)
\* The memo's image was pending, the reply came with a receipt's image, and
\* the expense was committed with the memo's image
C27_Witness ==
    /\ DataRound
    /\ ~Captured
    /\ pre.pendingClarificationInput # NULL
    /\ pre.pendingClarificationInput.imageUrl = "data:memo.png"
    /\ pre.call.imageUrl = "data:receipt.png"
    /\ \E e \in Range(expenses) : e.imageUrl = "data:memo.png"

\* ---------------------------------------------------------------- the busy signal
\* C28: every send releases the busy signal: isLoading, once true, becomes
\* false again, from any state an accepted import or local storage led to.
C28_BusyReleased == isLoading ~> ~isLoading

\* ---------------------------------------------------------------- what Replace leaves
\* The records that were in a collection before the last step and still are
Kept(kind) == {r \in Range(pre.store[kind]) : r \in Range(Store[kind])}

\* C29: after Replace no record that was there before and still is collides
\* with a record Replace committed, also when several records matched it.
C29_ReplaceLeavesNoCollision ==
    lastOp = "confirm" =>
        LET new == pre.conflictData.categorizedResult
        IN  /\ \A n \in Range(new.contacts) : \A b \in Kept("contacts") \ Range(new.contacts) :
                  ~(DigitsOf(n.phone) # <<>> /\ DigitsOf(n.phone) = DigitsOf(b.phone))
            /\ \A n \in Range(new.schedule) : \A b \in Kept("schedule") \ Range(new.schedule) :
                  ~SameScheduleItem(n, b)
            /\ \A n \in Range(new.expenses) : \A b \in Kept("expenses") \ Range(new.expenses) :
                  ~SameExpenseRecord(n, b)

\* ---------------------------------------------------------------- the end of a round
\* C30: once a result that asks no clarification (with records or with an
\* answer alone) or an error has been processed, pendingClarificationInput
\* is null.
C30_PendingClearedAtEnd ==
    \/ lastOp = "error"
    \/ lastOp = "result" /\ ~pre.result.clarificationNeeded
    => pendingClarificationInput = NULL

====
